---------------------------- MODULE Spec2Model ----------------------------
(***************************************************************************)
(* Model of mercurial-types/src/delta.rs: Fragment, Delta, apply,          *)
(* apply_chain, combine_chain, combine, take_frags, adjust,                *)
(* compat::convert and arbitrary_frag_content.                             *)
(*                                                                         *)
(* Offsets are 0-based as in the source; a byte vector is a TLA+ sequence, *)
(* so the slice text[a..b] is SubSeq(text, a + 1, b).                      *)
(*                                                                         *)
(* The code never reads, compares or computes on a byte: it only moves     *)
(* bytes around.  Inputs are therefore drawn with pairwise distinct bytes  *)
(* (byte i of a text is i, byte k of fragment i of delta number tag is     *)
(* 100 * tag + 10 * i + k), which tells apart any two outputs that differ  *)
(* in length or in where one of their bytes comes from.                    *)
(***************************************************************************)
EXTENDS Integers, Sequences, FiniteSets, TLC

VARIABLES
    pc,               \* position of the operation under way
    \* Delta::new
    frags,            \* the fragment list handed to Delta::new
    new_result,       \* what Delta::new returned
    \* apply
    text,             \* the input text
    delta,            \* the Delta applied to it
    output,           \* what apply returned
    \* Fragment::split
    orig,             \* the receiver before the call
    self,             \* the receiver (modified in place)
    at,               \* the split offset
    split_ret,        \* what split returned: <<>> is None, <<f>> is Some(f)
    \* combine
    first,            \* combine's first argument
    second,           \* combine's second argument
    combined,         \* the output list under construction
    first_frags,      \* the PutBack iterator over first.frags (its head is next)
    idx,              \* number of fragments of second.frags taken by the for loop
    frag,             \* the current fragment of second
    cum_len_change,   \* combine's cumulative length change
    cum,              \* take_frags' own cum_len_change (its by-value parameter)
    before,           \* result of the first take_frags call
    after,            \* result of the second take_frags call
    \* apply_chain / combine_chain
    deltas,           \* the chain of Deltas
    stepwise,         \* the text after applying the chain one Delta at a time
    chain_out,        \* what apply_chain returned
    left,             \* combine(combine(d1, d2), d3)
    right,            \* combine(d1, combine(d2, d3))
    \* a caller of the public operations
    d1,               \* a Delta the caller holds
    d2,               \* another Delta the caller holds
    assert_failed,    \* whether the last apply stopped at its assertion
    \* arbitrary_frag_content
    size,             \* g.size()
    sample,           \* lognormal.ind_sample(g), in units of 1 / SampleDenom
    content_len,      \* the local content_len
    vec               \* the vector v

newVars     == <<frags, new_result>>
applyVars   == <<text, delta, output>>
splitVars   == <<orig, self, at, split_ret>>
combineVars == <<first, second, combined, first_frags, idx, frag,
                 cum_len_change, cum, before, after>>
chainVars   == <<deltas, stepwise, chain_out, left, right>>
publicVars  == <<d1, d2, assert_failed>>
genVars     == <<size, sample, content_len, vec>>
vars        == <<pc, newVars, applyVars, splitVars, combineVars, chainVars, publicVars, genVars>>

\* The value of a variable that holds nothing yet.
None == [none |-> TRUE]

Min(a, b) == IF a <= b THEN a ELSE b

-----------------------------------------------------------------------------
(* Fragment *)

Fragment(s, e, c) == [start |-> s, end |-> e, content |-> c]

post_end(f) == f.start + Len(f.content)

\* length_change with the two terms the wrong way round.
length_change_swapped(f) == (f.end - f.start) - Len(f.content)

length_change(f) == Len(f.content) - (f.end - f.start)

\* Whether self.end - self.start in length_change underflows usize.  The
\* build's overflow check panics there; without the check the subtraction
\* wraps and the cast to isize gives the same value as length_change above.
length_change_overflows(f) == f.end < f.start

contains_offset(f, offset) == f.start <= offset /\ offset < post_end(f)

\* Vec::split_off(n): the receiver keeps [0, n), the returned vector is [n, len).
split_off_kept(v, n) == SubSeq(v, 1, n)
\* split_off returning one byte too few.
split_off_ret_short(v, n) == SubSeq(v, n + 2, Len(v))

split_off_ret(v, n) == SubSeq(v, n + 1, Len(v))

\* split without the clamp of the split point to self.end.
split_unclamped(f, offset) ==
    IF ~contains_offset(f, offset)
    THEN [self |-> f, ret |-> <<>>]
    ELSE [self |-> [f EXCEPT !.end = offset,
                             !.content = split_off_kept(f.content, offset - f.start)],
          ret  |-> << Fragment(offset, f.end,
                               split_off_ret(f.content, offset - f.start)) >>]

\* split reading self.end for the tail after it was overwritten.
split_stale_end(f, offset) ==
    IF ~contains_offset(f, offset)
    THEN [self |-> f, ret |-> <<>>]
    ELSE LET split_point == Min(f.end, offset)
         IN  [self |-> [f EXCEPT !.end = split_point,
                                 !.content = split_off_kept(f.content, offset - f.start)],
              ret  |-> << Fragment(split_point, split_point,
                                   split_off_ret(f.content, offset - f.start)) >>]

\* Fragment::split.  self is the receiver afterwards, ret the Option returned.
split(f, offset) ==
    IF ~contains_offset(f, offset)
    THEN [self |-> f, ret |-> <<>>]
    ELSE LET split_point == Min(f.end, offset)
             old_end == f.end
         IN  [self |-> [f EXCEPT !.end = split_point,
                                 !.content = split_off_kept(f.content, offset - f.start)],
              ret  |-> << Fragment(split_point, old_end,
                                   split_off_ret(f.content, offset - f.start)) >>]

\* Fragment::verify: TRUE is Ok(()).
Fragment_verify(f) == ~(f.start > f.end)

-----------------------------------------------------------------------------
(* Delta *)

VerifyOk == [ok |-> TRUE, index |-> 0, reason |-> "", prev_end |-> 0, start |-> 0]

\* Delta::verify refusing fragments that touch (<= for <).
RECURSIVE verify_from_strict(_, _)
verify_from_strict(fs, i) ==
    IF i >= Len(fs)
    THEN VerifyOk
    ELSE LET f == fs[i + 1] IN
         IF ~Fragment_verify(f)
         THEN [ok |-> FALSE, index |-> i, reason |-> "start > end",
               prev_end |-> 0, start |-> f.start]
         ELSE IF i > 0 /\ f.start <= fs[i].end
         THEN [ok |-> FALSE, index |-> i, reason |-> "previous end overlaps with start",
               prev_end |-> fs[i].end, start |-> f.start]
         ELSE verify_from_strict(fs, i + 1)

\* Delta::verify comparing with the previous fragment before frag.verify().
RECURSIVE verify_from_overlap_first(_, _)
verify_from_overlap_first(fs, i) ==
    IF i >= Len(fs)
    THEN VerifyOk
    ELSE LET f == fs[i + 1] IN
         IF i > 0 /\ f.start < fs[i].end
         THEN [ok |-> FALSE, index |-> i, reason |-> "previous end overlaps with start",
               prev_end |-> fs[i].end, start |-> f.start]
         ELSE IF ~Fragment_verify(f)
         THEN [ok |-> FALSE, index |-> i, reason |-> "start > end",
               prev_end |-> 0, start |-> f.start]
         ELSE verify_from_overlap_first(fs, i + 1)

\* Delta::verify from fragment index i (0-based) on; prev_frag is frags[i - 1].
RECURSIVE verify_from(_, _)
verify_from(fs, i) ==
    IF i >= Len(fs)
    THEN VerifyOk
    ELSE LET f == fs[i + 1] IN
         IF ~Fragment_verify(f)
         THEN [ok |-> FALSE, index |-> i, reason |-> "start > end",
               prev_end |-> 0, start |-> f.start]
         ELSE IF i > 0 /\ f.start < fs[i].end
         THEN [ok |-> FALSE, index |-> i, reason |-> "previous end overlaps with start",
               prev_end |-> fs[i].end, start |-> f.start]
         ELSE verify_from(fs, i + 1)

verify(fs) == verify_from(fs, 0)

\* Delta::new: Ok(Delta { frags }) is [ok |-> TRUE, delta |-> <<frags>>].
Delta_new(fs) ==
    LET v == verify(fs) IN
    IF v.ok THEN [ok |-> TRUE, delta |-> <<fs>>, err |-> v]
    ELSE [ok |-> FALSE, delta |-> <<>>, err |-> v]

\* Delta::default
Delta_default == <<>>

-----------------------------------------------------------------------------
(* apply *)

RECURSIVE concat(_)
concat(chunks) ==
    IF chunks = <<>> THEN <<>> ELSE Head(chunks) \o concat(Tail(chunks))

\* &text[a..b]
slice(t, a, b) == SubSeq(t, a + 1, b)

Panic == [panic |-> TRUE, output |-> <<>>]

\* apply without the tail after the last fragment.
RECURSIVE apply_from_no_tail(_, _, _, _, _)
apply_from_no_tail(t, fs, i, off, chunks) ==
    IF i > Len(fs)
    THEN [panic |-> FALSE, output |-> concat(chunks)]
    ELSE LET f == fs[i] IN
         IF ~(off <= f.start) THEN Panic
         ELSE IF off < f.start /\ f.start > Len(t) THEN Panic
         ELSE LET c1 == IF off < f.start THEN Append(chunks, slice(t, off, f.start))
                        ELSE chunks
                  c2 == IF Len(f.content) > 0 THEN Append(c1, f.content) ELSE c1
              IN  apply_from_no_tail(t, fs, i + 1, f.end, c2)

\* The loop of apply from fragment i (1-based) on, then the tail and the copy.
\* A failed assertion or an out-of-range slice panics.
RECURSIVE apply_from(_, _, _, _, _)
apply_from(t, fs, i, off, chunks) ==
    IF i > Len(fs)
    THEN LET all == IF off < Len(t) THEN Append(chunks, slice(t, off, Len(t)))
                    ELSE chunks
         IN  [panic |-> FALSE, output |-> concat(all)]
    ELSE LET f == fs[i] IN
         IF ~(off <= f.start) THEN Panic
         ELSE IF off < f.start /\ f.start > Len(t) THEN Panic
         ELSE LET c1 == IF off < f.start THEN Append(chunks, slice(t, off, f.start))
                        ELSE chunks
                  c2 == IF Len(f.content) > 0 THEN Append(c1, f.content) ELSE c1
              IN  apply_from(t, fs, i + 1, f.end, c2)

apply(t, d) == apply_from(t, d, 1, 0, <<>>)

\* Whether apply stops at `assert!(off <= frag.start)`, from fragment i
\* (1-based) on; a slice out of range at an earlier fragment panics first.
RECURSIVE apply_assert_fails_from(_, _, _, _)
apply_assert_fails_from(t, fs, i, off) ==
    IF i > Len(fs) THEN FALSE
    ELSE LET f == fs[i] IN
         IF ~(off <= f.start) THEN TRUE
         ELSE IF off < f.start /\ f.start > Len(t) THEN FALSE
         ELSE apply_assert_fails_from(t, fs, i + 1, f.end)

apply_assert_fails(t, d) == apply_assert_fails_from(t, d, 1, 0)

-----------------------------------------------------------------------------
(* combine *)

\* adjust: offset - adjustment on usize.  A negative value here is the usize
\* underflow that the source leaves to the build's overflow check (a panic).
adjust(offset, adjustment) ==
    IF adjustment < 0 THEN offset + (-adjustment) ELSE offset - adjustment

\* take_frags not counting the length change of the fragments it drops.
take_iter_skip_uncounted(dst_some, dst, src, cutoff, c) ==
    LET f == Head(src)
        src1 == Tail(src)
        adjusted == adjust(cutoff, c)
    IN  IF adjusted < 0
        THEN [dst |-> dst, src |-> src1, cum |-> c, brk |-> TRUE, panic |-> TRUE]
        ELSE IF post_end(f) > adjusted
        THEN LET s == split(f, adjusted) IN
             IF s.ret # <<>>
             THEN [dst |-> IF dst_some THEN Append(dst, s.self) ELSE dst,
                   src |-> <<s.ret[1]>> \o src1,
                   cum |-> IF dst_some THEN c + length_change(s.self) ELSE c,
                   brk |-> TRUE, panic |-> FALSE]
             ELSE [dst |-> dst, src |-> <<s.self>> \o src1, cum |-> c,
                   brk |-> TRUE, panic |-> FALSE]
        ELSE [dst |-> IF dst_some THEN Append(dst, f) ELSE dst,
              src |-> src1,
              cum |-> IF dst_some THEN c + length_change(f) ELSE c,
              brk |-> FALSE, panic |-> FALSE]

\* take_frags counting each length change twice.
take_iter_double_count(dst_some, dst, src, cutoff, c) ==
    LET f == Head(src)
        src1 == Tail(src)
        adjusted == adjust(cutoff, c)
    IN  IF adjusted < 0
        THEN [dst |-> dst, src |-> src1, cum |-> c, brk |-> TRUE, panic |-> TRUE]
        ELSE IF post_end(f) > adjusted
        THEN LET s == split(f, adjusted) IN
             IF s.ret # <<>>
             THEN [dst |-> IF dst_some THEN Append(dst, s.self) ELSE dst,
                   src |-> <<s.ret[1]>> \o src1,
                   cum |-> c + 2 * length_change(s.self),
                   brk |-> TRUE, panic |-> FALSE]
             ELSE [dst |-> dst, src |-> <<s.self>> \o src1, cum |-> c,
                   brk |-> TRUE, panic |-> FALSE]
        ELSE [dst |-> IF dst_some THEN Append(dst, f) ELSE dst,
              src |-> src1,
              cum |-> c + 2 * length_change(f),
              brk |-> FALSE, panic |-> FALSE]

\* take_frags dropping, not putting back, a fragment that starts after the
\* cutoff.
take_iter_no_put_back(dst_some, dst, src, cutoff, c) ==
    LET f == Head(src)
        src1 == Tail(src)
        adjusted == adjust(cutoff, c)
    IN  IF adjusted < 0
        THEN [dst |-> dst, src |-> src1, cum |-> c, brk |-> TRUE, panic |-> TRUE]
        ELSE IF post_end(f) > adjusted
        THEN LET s == split(f, adjusted) IN
             IF s.ret # <<>>
             THEN [dst |-> IF dst_some THEN Append(dst, s.self) ELSE dst,
                   src |-> <<s.ret[1]>> \o src1,
                   cum |-> c + length_change(s.self),
                   brk |-> TRUE, panic |-> FALSE]
             ELSE [dst |-> dst, src |-> src1, cum |-> c,
                   brk |-> TRUE, panic |-> FALSE]
        ELSE [dst |-> IF dst_some THEN Append(dst, f) ELSE dst,
              src |-> src1,
              cum |-> c + length_change(f),
              brk |-> FALSE, panic |-> FALSE]

\* take_frags pushing the fragments it takes whether or not dst is Some.
take_iter_keep_skipped(dst_some, dst, src, cutoff, c) ==
    LET f == Head(src)
        src1 == Tail(src)
        adjusted == adjust(cutoff, c)
    IN  IF adjusted < 0
        THEN [dst |-> dst, src |-> src1, cum |-> c, brk |-> TRUE, panic |-> TRUE]
        ELSE IF post_end(f) > adjusted
        THEN LET s == split(f, adjusted) IN
             IF s.ret # <<>>
             THEN [dst |-> Append(dst, s.self),
                   src |-> <<s.ret[1]>> \o src1,
                   cum |-> c + length_change(s.self),
                   brk |-> TRUE, panic |-> FALSE]
             ELSE [dst |-> dst, src |-> <<s.self>> \o src1, cum |-> c,
                   brk |-> TRUE, panic |-> FALSE]
        ELSE [dst |-> Append(dst, f),
              src |-> src1,
              cum |-> c + length_change(f),
              brk |-> FALSE, panic |-> FALSE]

\* One iteration of take_frags' while loop, src.next() being Some.  dst_some is
\* whether dst is Some; c is take_frags' cum_len_change.  brk: the loop breaks.
take_iter(dst_some, dst, src, cutoff, c) ==
    LET f == Head(src)
        src1 == Tail(src)
        adjusted == adjust(cutoff, c)
    IN  IF adjusted < 0
        THEN [dst |-> dst, src |-> src1, cum |-> c, brk |-> TRUE, panic |-> TRUE]
        ELSE IF post_end(f) > adjusted
        THEN LET s == split(f, adjusted) IN
             IF s.ret # <<>>
             THEN [dst |-> IF dst_some THEN Append(dst, s.self) ELSE dst,
                   src |-> <<s.ret[1]>> \o src1,
                   cum |-> c + length_change(s.self),
                   brk |-> TRUE, panic |-> FALSE]
             ELSE [dst |-> dst, src |-> <<s.self>> \o src1, cum |-> c,
                   brk |-> TRUE, panic |-> FALSE]
        ELSE [dst |-> IF dst_some THEN Append(dst, f) ELSE dst,
              src |-> src1,
              cum |-> c + length_change(f),
              brk |-> FALSE, panic |-> FALSE]

\* take_frags: the while loop run to its end.
RECURSIVE take_frags(_, _, _, _, _)
take_frags(dst_some, dst, src, cutoff, c) ==
    IF src = <<>>
    THEN [dst |-> dst, src |-> src, cum |-> c, brk |-> FALSE, panic |-> FALSE]
    ELSE LET r == take_iter(dst_some, dst, src, cutoff, c) IN
         IF r.brk THEN r ELSE take_frags(dst_some, r.dst, r.src, cutoff, r.cum)

\* The for loop's body translating frag.end by `before` instead of `after`.
combine_frag_end_before(out, src, c, f) ==
    LET b == take_frags(TRUE, out, src, f.start, c)
        a == take_frags(FALSE, b.dst, b.src, f.end, b.cum)
        s == adjust(f.start, b.cum)
        e == adjust(f.end, b.cum)
    IN  [combined |-> Append(b.dst, [f EXCEPT !.start = s, !.end = e]),
         src |-> a.src, cum |-> a.cum,
         panic |-> b.panic \/ a.panic \/ s < 0 \/ e < 0]

\* The body of combine's for loop for fragment f of second.
combine_frag(out, src, c, f) ==
    LET b == take_frags(TRUE, out, src, f.start, c)
        a == take_frags(FALSE, b.dst, b.src, f.end, b.cum)
        s == adjust(f.start, b.cum)
        e == adjust(f.end, a.cum)
    IN  [combined |-> Append(b.dst, [f EXCEPT !.start = s, !.end = e]),
         src |-> a.src, cum |-> a.cum,
         panic |-> b.panic \/ a.panic \/ s < 0 \/ e < 0]

\* combine's for loop from fragment i of second on, then the extend.
RECURSIVE combine_from(_, _, _, _, _)
combine_from(snd, i, out, src, c) ==
    IF i > Len(snd)
    THEN [panic |-> FALSE, frags |-> out \o src]
    ELSE LET r == combine_frag(out, src, c, snd[i]) IN
         IF r.panic THEN [panic |-> TRUE, frags |-> <<>>]
         ELSE combine_from(snd, i + 1, r.combined, r.src, r.cum)

combine(fst, snd) == combine_from(snd, 1, <<>>, fst, 0).frags

combine_panics(fst, snd) == combine_from(snd, 1, <<>>, fst, 0).panic

\* The fold calling combine with its arguments the wrong way round.
RECURSIVE combine_chain_from_swapped(_, _, _)
combine_chain_from_swapped(ds, i, acc) ==
    IF i > Len(ds) THEN acc
    ELSE combine_chain_from_swapped(ds, i + 1, combine(ds[i], acc))

\* combine_chain: the left fold of combine from Delta::default().
RECURSIVE combine_chain_from(_, _, _)
combine_chain_from(ds, i, acc) ==
    IF i > Len(ds) THEN acc ELSE combine_chain_from(ds, i + 1, combine(acc, ds[i]))

combine_chain(ds) == combine_chain_from(ds, 1, Delta_default)

\* combine_chain keeping track of a panic in one of its combine calls: r is
\* the fold's accumulator so far, Delta i of ds (1-based) the next to combine.
RECURSIVE combine_chain_checked_from(_, _, _)
combine_chain_checked_from(ds, i, r) ==
    IF r.panic \/ i > Len(ds) THEN r
    ELSE combine_chain_checked_from(ds, i + 1, combine_from(ds[i], 1, <<>>, r.frags, 0))

combine_chain_checked(ds) ==
    combine_chain_checked_from(ds, 1, [panic |-> FALSE, frags |-> Delta_default])

apply_chain(t, ds) == apply(t, combine_chain(ds))

\* compat::convert: one Fragment per bdiff::Delta, field by field, into
\* Delta { frags }; nothing is verified.
convert(bdeltas) ==
    [i \in 1..Len(bdeltas) |->
        Fragment(bdeltas[i].start, bdeltas[i].end, bdeltas[i].content)]

-----------------------------------------------------------------------------
(* Inputs *)

\* The text of n pairwise distinct bytes.
Text(n) == [i \in 1..n |-> i]

\* The content of fragment i of Delta number tag: n bytes found nowhere else.
Content(tag, i, n) == [k \in 1..n |-> 100 * tag + 10 * i + k]

\* Every Delta (a list Delta::verify accepts) of at most k fragments, numbered
\* from i, with offsets in lo..maxOff and contents of at most maxContent bytes.
RECURSIVE DeltasFrom(_, _, _, _, _, _)
DeltasFrom(tag, i, lo, maxOff, maxContent, k) ==
    {<<>>} \cup
    IF k = 0 THEN {}
    ELSE UNION { UNION { UNION {
             { <<Fragment(s, e, Content(tag, i, n))>> \o d :
                 d \in DeltasFrom(tag, i + 1, e, maxOff, maxContent, k - 1) }
             : n \in 0..maxContent } : e \in s..maxOff } : s \in lo..maxOff }

Deltas(tag, maxOff, maxContent, k) == DeltasFrom(tag, 1, 0, maxOff, maxContent, k)

\* Whether every offset of d lies within t.
Defined(t, d) == \A i \in 1..Len(d) : d[i].end <= Len(t)

-----------------------------------------------------------------------------
(* The combine machine: one step per iteration of take_frags' loop and per  *)
(* push onto combined.                                                      *)

MaxOff == 2
MaxContent == 2
MaxFrags == 2

NewIdle == frags = None /\ new_result = None

ApplyIdle == text = None /\ delta = None /\ output = None

SplitIdle == orig = None /\ self = None /\ at = None /\ split_ret = None

CombineIdle ==
    /\ first = None /\ second = None /\ combined = None /\ first_frags = None
    /\ idx = None /\ frag = None /\ cum_len_change = None /\ cum = None
    /\ before = None /\ after = None

ChainIdle ==
    /\ deltas = None /\ stepwise = None /\ chain_out = None
    /\ left = None /\ right = None

PublicIdle == d1 = None /\ d2 = None /\ assert_failed = None

GenIdle == size = None /\ sample = None /\ content_len = None /\ vec = None

\* combine(first, second) is entered: lines 249-256.  first and second are any
\* two Deltas holding at most MaxFrags fragments between them.
Init ==
    /\ pc = "for"
    /\ NewIdle /\ ApplyIdle /\ SplitIdle /\ ChainIdle /\ PublicIdle /\ GenIdle
    /\ \E n \in 0..MaxFrags :
          /\ first \in { d \in Deltas(1, MaxOff, MaxContent, n) : Len(d) = n }
          /\ second \in Deltas(2, MaxOff, MaxContent, MaxFrags - n)
    /\ combined = <<>>
    /\ first_frags = first
    /\ idx = 0
    /\ frag = None
    /\ cum_len_change = 0
    /\ cum = 0
    /\ before = 0
    /\ after = 0

\* `for mut frag in second.frags` yields a fragment; the first take_frags call
\* is entered with combine's cum_len_change.
ForNext ==
    /\ pc = "for"
    /\ idx < Len(second)
    /\ frag' = second[idx + 1]
    /\ idx' = idx + 1
    /\ cum' = cum_len_change
    /\ pc' = "take"
    /\ UNCHANGED <<first, second, combined, first_frags, cum_len_change, before, after>>
    /\ UNCHANGED <<newVars, applyVars, splitVars, chainVars, publicVars, genVars>>

\* take_frags returns c: the first call's result is `before` and the second
\* call starts from it; the second call's result is `after`.
TakeReturn(c) ==
    IF pc = "take"
    THEN before' = c /\ cum' = c /\ pc' = "skip" /\ UNCHANGED after
    ELSE after' = c /\ cum' = c /\ pc' = "push" /\ UNCHANGED before

\* One iteration of the while loop of the take_frags call under way.
TakeFragsIter ==
    /\ pc \in {"take", "skip"}
    /\ first_frags # <<>>
    /\ LET cutoff == IF pc = "take" THEN frag.start ELSE frag.end
           r == take_iter(pc = "take", combined, first_frags, cutoff, cum)
       IN  /\ combined' = r.dst
           /\ first_frags' = r.src
           /\ IF r.panic THEN pc' = "panic" /\ UNCHANGED <<cum, before, after>>
              ELSE IF r.brk THEN TakeReturn(r.cum)
              ELSE cum' = r.cum /\ UNCHANGED <<pc, before, after>>
    /\ UNCHANGED <<first, second, idx, frag, cum_len_change>>
    /\ UNCHANGED <<newVars, applyVars, splitVars, chainVars, publicVars, genVars>>

\* src.next() is None: the while loop ends and take_frags returns.
TakeFragsExhausted ==
    /\ pc \in {"take", "skip"}
    /\ first_frags = <<>>
    /\ TakeReturn(cum)
    /\ UNCHANGED <<first, second, combined, first_frags, idx, frag, cum_len_change>>
    /\ UNCHANGED <<newVars, applyVars, splitVars, chainVars, publicVars, genVars>>

\* The push keeping `before`, not `after`, as the cumulative length change.
PushFrag_keep_before ==
    /\ pc = "push"
    /\ LET s == adjust(frag.start, before)
           e == adjust(frag.end, after)
       IN  IF s < 0 \/ e < 0
           THEN pc' = "panic" /\ UNCHANGED <<frag, combined, cum_len_change>>
           ELSE /\ frag' = [frag EXCEPT !.start = s, !.end = e]
                /\ combined' = Append(combined, frag')
                /\ cum_len_change' = before
                /\ pc' = "for"
    /\ UNCHANGED <<first, second, first_frags, idx, cum, before, after>>
    /\ UNCHANGED <<newVars, applyVars, splitVars, chainVars, publicVars, genVars>>

\* Lines 272-276: translate frag, push it, keep `after`.
PushFrag ==
    /\ pc = "push"
    /\ LET s == adjust(frag.start, before)
           e == adjust(frag.end, after)
       IN  IF s < 0 \/ e < 0
           THEN pc' = "panic" /\ UNCHANGED <<frag, combined, cum_len_change>>
           ELSE /\ frag' = [frag EXCEPT !.start = s, !.end = e]
                /\ combined' = Append(combined, frag')
                /\ cum_len_change' = after
                /\ pc' = "for"
    /\ UNCHANGED <<first, second, first_frags, idx, cum, before, after>>
    /\ UNCHANGED <<newVars, applyVars, splitVars, chainVars, publicVars, genVars>>

\* combine returning without the fragments left in first_frags.
Extend_drop_rest ==
    /\ pc = "for"
    /\ idx = Len(second)
    /\ first_frags' = <<>>
    /\ pc' = "done"
    /\ UNCHANGED <<first, second, combined, idx, frag, cum_len_change, cum, before, after>>
    /\ UNCHANGED <<newVars, applyVars, splitVars, chainVars, publicVars, genVars>>

\* Line 280: combined.extend(first_frags); combine returns.
Extend ==
    /\ pc = "for"
    /\ idx = Len(second)
    /\ combined' = combined \o first_frags
    /\ first_frags' = <<>>
    /\ pc' = "done"
    /\ UNCHANGED <<first, second, idx, frag, cum_len_change, cum, before, after>>
    /\ UNCHANGED <<newVars, applyVars, splitVars, chainVars, publicVars, genVars>>

Next == ForNext \/ TakeFragsIter \/ TakeFragsExhausted \/ PushFrag \/ Extend

Spec == Init /\ [][Next]_vars

-----------------------------------------------------------------------------
(* Delta::new on any fragment list *)

NewMaxOff == 2
NewMaxFrags == 2

\* Any fragment, start > end included; Delta::verify never reads the content.
AnyFragments ==
    { Fragment(s, e, c) : s \in 0..NewMaxOff, e \in 0..NewMaxOff,
                          c \in {<<>>, Content(3, 1, 1)} }

AnyFragLists == UNION { [1..n -> AnyFragments] : n \in 0..NewMaxFrags }

InitNew ==
    /\ pc = "new"
    /\ frags \in AnyFragLists
    /\ new_result = None
    /\ ApplyIdle /\ SplitIdle /\ CombineIdle /\ ChainIdle /\ PublicIdle /\ GenIdle

DeltaNew ==
    /\ pc = "new"
    /\ new_result' = Delta_new(frags)
    /\ pc' = "new_done"
    /\ UNCHANGED <<frags, applyVars, splitVars, combineVars, chainVars, publicVars, genVars>>

NextNew == DeltaNew

SpecNew == InitNew /\ [][NextNew]_vars

-----------------------------------------------------------------------------
(* apply on a text and a Delta, whose offsets may lie beyond the text *)

ApplyMaxText == 2
ApplyMaxContent == 2
ApplyMaxFrags == 2
ApplyMaxOff == ApplyMaxText + 1

InitApply ==
    /\ pc = "apply"
    /\ text \in { Text(n) : n \in 0..ApplyMaxText }
    /\ delta \in Deltas(1, ApplyMaxOff, ApplyMaxContent, ApplyMaxFrags)
    /\ output = None
    /\ NewIdle /\ SplitIdle /\ CombineIdle /\ ChainIdle /\ PublicIdle /\ GenIdle

Apply ==
    /\ pc = "apply"
    /\ output' = apply(text, delta)
    /\ pc' = "apply_done"
    /\ UNCHANGED <<text, delta, newVars, splitVars, combineVars, chainVars, publicVars, genVars>>

NextApply == Apply

SpecApply == InitApply /\ [][NextApply]_vars

-----------------------------------------------------------------------------
(* Fragment::split on any fragment and offset *)

SplitMaxOff == 3
SplitMaxContent == 3
SplitMaxText == SplitMaxOff + 1

InitSplit ==
    /\ pc = "split"
    /\ orig \in { Fragment(s, e, Content(1, 1, n)) :
                    s \in 0..SplitMaxOff, e \in 0..SplitMaxOff, n \in 0..SplitMaxContent }
    /\ self = orig
    /\ at \in 0..(SplitMaxOff + SplitMaxContent)
    /\ split_ret = None
    /\ NewIdle /\ ApplyIdle /\ CombineIdle /\ ChainIdle /\ PublicIdle /\ GenIdle

Split ==
    /\ pc = "split"
    /\ self' = split(self, at).self
    /\ split_ret' = split(self, at).ret
    /\ pc' = "split_done"
    /\ UNCHANGED <<orig, at, newVars, applyVars, combineVars, chainVars, publicVars, genVars>>

NextSplit == Split

SpecSplit == InitSplit /\ [][NextSplit]_vars

-----------------------------------------------------------------------------
(* apply_chain and the two groupings of three Deltas.  The chain is built   *)
(* one Delta at a time, each Delta within the text the Deltas before it     *)
(* produce; stepwise is that text, got by apply alone.                      *)

ChainMaxText == 2
ChainMaxContent == 2
ChainMaxFrags == 1
MaxChain == 3

InitChain ==
    /\ pc = "chain"
    /\ text \in { Text(n) : n \in 0..ChainMaxText }
    /\ delta = None /\ output = None
    /\ deltas = <<>>
    /\ stepwise = text
    /\ chain_out = None /\ left = None /\ right = None
    /\ NewIdle /\ SplitIdle /\ CombineIdle /\ PublicIdle /\ GenIdle

ChainPush ==
    /\ pc = "chain"
    /\ Len(deltas) < MaxChain
    /\ \E d \in Deltas(Len(deltas) + 1, Len(stepwise), ChainMaxContent, ChainMaxFrags) :
          /\ deltas' = Append(deltas, d)
          /\ stepwise' = apply(stepwise, d).output
    /\ UNCHANGED <<pc, text, delta, output, chain_out, left, right>>
    /\ UNCHANGED <<newVars, splitVars, combineVars, publicVars, genVars>>

ApplyChain ==
    /\ pc = "chain"
    /\ chain_out' = apply_chain(text, deltas)
    /\ pc' = "chain_done"
    /\ UNCHANGED <<text, delta, output, deltas, stepwise, left, right>>
    /\ UNCHANGED <<newVars, splitVars, combineVars, publicVars, genVars>>

Regroup ==
    /\ pc = "chain"
    /\ Len(deltas) = 3
    /\ left' = combine(combine(deltas[1], deltas[2]), deltas[3])
    /\ right' = combine(deltas[1], combine(deltas[2], deltas[3]))
    /\ pc' = "assoc_done"
    /\ UNCHANGED <<text, delta, output, deltas, stepwise, chain_out>>
    /\ UNCHANGED <<newVars, splitVars, combineVars, publicVars, genVars>>

NextChain == ChainPush \/ ApplyChain \/ Regroup

SpecChain == InitChain /\ [][NextChain]_vars

-----------------------------------------------------------------------------
(* A caller of the public operations: Delta::new, Delta::default, combine,   *)
(* combine_chain, compat::convert and apply, called in any order.  The       *)
(* caller holds two Deltas: d2 comes from a constructor, d1 from combining.  *)

PublicMaxOff == 1
PublicMaxFrags == 2
PublicMaxChain == 2
PublicMaxText == 1

\* Any fragment list, and any list of bdiff::Delta (convert reads its public
\* fields start, end and content, which the caller sets freely).
PublicFragments ==
    { Fragment(s, e, c) : s \in 0..PublicMaxOff, e \in 0..PublicMaxOff,
                          c \in {<<>>, Content(4, 1, 1)} }

PublicFragLists == UNION { [1..n -> PublicFragments] : n \in 0..PublicMaxFrags }

\* Whether a result stays within the bounds.
PublicFits(d) ==
    /\ Len(d) <= PublicMaxFrags
    /\ \A i \in 1..Len(d) : d[i].start <= PublicMaxOff /\ d[i].end <= PublicMaxOff

InitPublic ==
    /\ pc = "public"
    /\ d1 = Delta_default
    /\ d2 = Delta_default
    /\ assert_failed = FALSE
    /\ NewIdle /\ ApplyIdle /\ SplitIdle /\ CombineIdle /\ ChainIdle /\ GenIdle

PublicNew ==
    /\ pc = "public"
    /\ \E fs \in PublicFragLists :
          /\ Delta_new(fs).ok
          /\ d2' = Delta_new(fs).delta[1]
    /\ UNCHANGED <<pc, d1, assert_failed>>
    /\ UNCHANGED <<newVars, applyVars, splitVars, combineVars, chainVars, genVars>>

PublicDefault ==
    /\ pc = "public"
    /\ d2' = Delta_default
    /\ UNCHANGED <<pc, d1, assert_failed>>
    /\ UNCHANGED <<newVars, applyVars, splitVars, combineVars, chainVars, genVars>>

PublicConvert ==
    /\ pc = "public"
    /\ \E bdeltas \in PublicFragLists : d2' = convert(bdeltas)
    /\ UNCHANGED <<pc, d1, assert_failed>>
    /\ UNCHANGED <<newVars, applyVars, splitVars, combineVars, chainVars, genVars>>

\* Whether combine(a, b) may take length_change of a fragment whose start
\* exceeds its end.
MayOverflow(a) == \E i \in 1..Len(a) : length_change_overflows(a[i])

\* The outcome r of combining: a panic ends the caller (always when adjust
\* underflows, and in a build that checks overflow when length_change may
\* underflow), otherwise the caller keeps the result.
PublicCombined(may_overflow, r) ==
    \/ /\ r.panic \/ may_overflow
       /\ pc' = "panic"
       /\ UNCHANGED d1
    \/ /\ ~r.panic
       /\ PublicFits(r.frags)
       /\ d1' = r.frags
       /\ UNCHANGED pc

\* combine on two of the held Deltas.
PublicCombine ==
    /\ pc = "public"
    /\ \E a \in {d1, d2}, b \in {d1, d2} :
          \E r \in { combine_from(b, 1, <<>>, a, 0) } : PublicCombined(MayOverflow(a), r)
    /\ UNCHANGED <<d2, assert_failed>>
    /\ UNCHANGED <<newVars, applyVars, splitVars, combineVars, chainVars, genVars>>

\* combine_chain on a chain of held Deltas.
PublicCombineChain ==
    /\ pc = "public"
    /\ \E n \in 0..PublicMaxChain :
          \E ds \in [1..n -> {d1, d2}] :
             \E r \in { combine_chain_checked(ds) } :
                PublicCombined(\E i \in 1..(n - 1) : MayOverflow(ds[i]), r)
    /\ UNCHANGED <<d2, assert_failed>>
    /\ UNCHANGED <<newVars, applyVars, splitVars, combineVars, chainVars, genVars>>

\* apply on a held Delta (&self: the Delta outlives a panic of apply).
PublicApply ==
    /\ pc = "public"
    /\ \E n \in 0..PublicMaxText, d \in {d1, d2} :
          assert_failed' = apply_assert_fails(Text(n), d)
    /\ UNCHANGED <<pc, d1, d2>>
    /\ UNCHANGED <<newVars, applyVars, splitVars, combineVars, chainVars, genVars>>

NextPublic ==
    \/ PublicNew \/ PublicDefault \/ PublicConvert
    \/ PublicCombine \/ PublicCombineChain \/ PublicApply

SpecPublic == InitPublic /\ [][NextPublic]_vars

-----------------------------------------------------------------------------
(* arbitrary_frag_content, for any generator size and any sample of the      *)
(* log-normal distribution.  A sample is a multiple of 1 / SampleDenom.      *)

GenMaxSize == 7
GenMaxSample == 7
SampleDenom == 2
MaxByte == 1

\* ((size as f64) * sample) as usize: the product, rounded towards zero.
ContentLen(sz, smp) == (sz * smp) \div SampleDenom

\* Vec::with_capacity(n): an empty vector with room for n bytes.
Vec_with_capacity(n) == [buf |-> <<>>, capacity |-> n]

\* g.fill_bytes(dest): what the slice dest of n bytes can hold afterwards.
fill_bytes(n) == [1..n -> 0..MaxByte]

InitGen ==
    /\ pc = "gen"
    /\ size \in 0..GenMaxSize
    /\ sample \in 0..GenMaxSample
    /\ content_len = None
    /\ vec = None
    /\ NewIdle /\ ApplyIdle /\ SplitIdle /\ CombineIdle /\ ChainIdle /\ PublicIdle

\* Lines 199-203: content_len is computed, v is allocated with that capacity,
\* fill_bytes gets v as a slice (its len() bytes, not its capacity), v returns.
ArbitraryFragContent ==
    /\ pc = "gen"
    /\ content_len' = ContentLen(size, sample)
    /\ \E bytes \in fill_bytes(Len(Vec_with_capacity(content_len').buf)) :
          vec' = [Vec_with_capacity(content_len') EXCEPT !.buf = bytes]
    /\ pc' = "gen_done"
    /\ UNCHANGED <<size, sample>>
    /\ UNCHANGED <<newVars, applyVars, splitVars, combineVars, chainVars, publicVars>>

NextGen == ArbitraryFragContent

SpecGen == InitGen /\ [][NextGen]_vars

-----------------------------------------------------------------------------
(* Properties of combine, under Spec *)

\* A text this long holds every offset of first, and what first makes of it
\* holds every offset of second.
MaxText == 2 * MaxOff

\* C1: composition soundness.  When combine has returned, for every text t on
\* which first is defined and such that second is defined on apply(t, first),
\* apply(t, combine(first, second)) and apply(apply(t, first), second) both
\* return, and return the same bytes.
C1_CompositionSound ==
    pc = "done" =>
        \A n \in 0..MaxText :
            LET t == Text(n)
                t1 == apply(t, first)
            IN  (Defined(t, first) /\ Defined(t1.output, second)) =>
                    LET l == apply(t, combined)
                        r == apply(t1.output, second)
                    IN  /\ ~t1.panic /\ ~l.panic /\ ~r.panic
                        /\ l.output = r.output

\* combine has returned after second's fragment fell inside the content of
\* first's fragment: head, translated fragment and tail are all in the result,
\* each with content, and the result applied to the longest text gives what
\* the two Deltas give in sequence.
C1_Witness ==
    /\ pc = "done"
    /\ Len(first) = 1 /\ Len(second) = 1 /\ Len(combined) = 3
    /\ \A i \in 1..3 : combined[i].content # <<>>
    /\ combined[1].content \o combined[3].content = first[1].content
    /\ apply(Text(MaxText), combined).output
         = apply(apply(Text(MaxText), first).output, second).output

\* C2: combine preserves the Delta invariants.  In every state of the merge
\* (after every append) and at the end, Delta::new would accept the output
\* list: every fragment has start <= end and starts at or after the end of
\* the fragment before it.
C2_CombinedValid ==
    /\ Delta_new(combined).ok
    /\ \A i \in 1..Len(combined) :
          /\ combined[i].start <= combined[i].end
          /\ i > 1 => combined[i].start >= combined[i - 1].end

\* The first take_frags call has just split a growing fragment of first past
\* its end offset: the head is in the output, the tail put back starts and
\* ends at the old end.
C2_Witness ==
    /\ pc = "skip"
    /\ Len(combined) = 1 /\ combined[1].content # <<>>
    /\ first_frags # <<>>
    /\ first_frags[1].content # <<>>
    /\ first_frags[1].start = first[1].end
    /\ first_frags[1].end = first[1].end
    /\ post_end(combined[1]) > first[1].end

\* C7: the empty Delta is a two-sided identity of combine, as fragment lists:
\* combine(d, Delta::default()) = d and combine(Delta::default(), d) = d.
C7_EmptyIdentity ==
    pc = "done" =>
        /\ second = Delta_default => combined = first
        /\ first = Delta_default => combined = second

\* combine(Delta::default(), d) has returned d, a Delta of two fragments with
\* content, the first one not at offset 0.
C7_Witness ==
    /\ pc = "done"
    /\ first = Delta_default
    /\ Len(second) = 2
    /\ second[1].start > 0
    /\ second[1].content # <<>> /\ second[2].content # <<>>
    /\ combined = second

-----------------------------------------------------------------------------
(* Properties of Delta::new, under SpecNew *)

\* The Delta invariants, stated on the list itself.
SortedNonOverlapping(fs) ==
    /\ \A i \in 1..Len(fs) : fs[i].start <= fs[i].end
    /\ \A i \in 2..Len(fs) : fs[i].start >= fs[i - 1].end

\* C3: Delta::new(frags) returns Ok, with a Delta holding frags, exactly when
\* every fragment has start <= end and every fragment after the first starts
\* at or after the end of the one before it; otherwise it returns an error
\* and no Delta.
C3_NewOkIffValid ==
    pc = "new_done" =>
        /\ new_result.ok <=> SortedNonOverlapping(frags)
        /\ new_result.ok => new_result.delta = <<frags>>
        /\ ~new_result.ok => new_result.delta = <<>>

\* Delta::new has accepted two fragments that touch at one offset, the first
\* one replacing a non-empty range.
C3_Witness ==
    /\ pc = "new_done"
    /\ Len(frags) = 2
    /\ frags[1].start < frags[1].end
    /\ frags[2].start = frags[1].end
    /\ new_result.ok

\* Fragment i (0-based) of fs breaks a Delta invariant.
Offends(fs, i) ==
    \/ fs[i + 1].start > fs[i + 1].end
    \/ i > 0 /\ fs[i + 1].start < fs[i].end

\* C12: when Delta::new fails, the index of the error is the least i such
\* that fragment i has start > end or starts before the end of fragment
\* i - 1; the reason is "start > end" when fragment i has start > end (whether
\* or not it overlaps too), and otherwise "previous end X overlaps with start
\* Y" with X the end of fragment i - 1 and Y the start of fragment i.
C12_FirstOffender ==
    (pc = "new_done" /\ ~new_result.ok) =>
        LET e == new_result.err
            i == e.index
        IN  /\ i \in 0..(Len(frags) - 1)
            /\ Offends(frags, i)
            /\ \A j \in 0..(i - 1) : ~Offends(frags, j)
            /\ IF frags[i + 1].start > frags[i + 1].end
               THEN e.reason = "start > end"
               ELSE /\ e.reason = "previous end overlaps with start"
                    /\ e.prev_end = frags[i].end
                    /\ e.start = frags[i + 1].start

\* Delta::new refused a list whose second fragment both has start > end and
\* starts before the end of the first: the error is the start > end one, at
\* index 1.
C12_Witness ==
    /\ pc = "new_done"
    /\ Len(frags) = 2
    /\ ~Offends(frags, 0)
    /\ frags[2].start > frags[2].end
    /\ frags[2].start < frags[1].end
    /\ ~new_result.ok
    /\ new_result.err.index = 1
    /\ new_result.err.reason = "start > end"

-----------------------------------------------------------------------------
(* Properties of apply, under SpecApply *)

\* f_i.content ++ t[f_i.end .. f_(i+1).start] ++ ... ++ f_n.content ++ t[f_n.end .. len(t)]
RECURSIVE FromFragment(_, _, _)
FromFragment(t, d, i) ==
    IF i > Len(d) THEN <<>>
    ELSE d[i].content
         \o slice(t, d[i].end, IF i < Len(d) THEN d[i + 1].start ELSE Len(t))
         \o FromFragment(t, d, i + 1)

\* t[0 .. f_1.start] ++ f_1.content ++ t[f_1.end .. f_2.start] ++ ... ++ t[f_n.end .. len(t)]
Expected(t, d) ==
    IF d = <<>> THEN t ELSE slice(t, 0, d[1].start) \o FromFragment(t, d, 1)

\* C4: for a Delta whose fragments all end within the text, apply returns the
\* text with every replaced range removed, every content inserted at its
\* fragment's position and every other byte kept in order, the tail after the
\* last fragment included.
C4_ApplyExact ==
    (pc = "apply_done" /\ Defined(text, delta)) =>
        /\ ~output.panic
        /\ output.output = Expected(text, delta)

\* apply has returned for a pure deletion followed by a pure insertion, with
\* text left after the insertion point.
C4_Witness ==
    /\ pc = "apply_done"
    /\ Defined(text, delta)
    /\ Len(delta) = 2
    /\ delta[1].start < delta[1].end /\ delta[1].content = <<>>
    /\ delta[2].start = delta[2].end /\ delta[2].content # <<>>
    /\ delta[2].end < Len(text)
    /\ ~output.panic
    /\ Len(output.output) = Len(text) - (delta[1].end - delta[1].start)
                              + Len(delta[2].content)

RECURSIVE SumLengthChange(_, _)
SumLengthChange(d, i) ==
    IF i > Len(d) THEN 0 ELSE length_change(d[i]) + SumLengthChange(d, i + 1)

\* C8 as stated: whenever apply returns a result, its length is len(text) plus
\* the sum of length_change() over the fragments.
C8_WheneverApplyReturns ==
    (pc = "apply_done" /\ ~output.panic) =>
        Len(output.output) = Len(text) + SumLengthChange(delta, 1)

\* C8, amended: for a Delta whose fragments all end within the text, apply
\* returns a result whose length is len(text) plus the sum of length_change()
\* over the fragments.
C8_LengthChange ==
    (pc = "apply_done" /\ Defined(text, delta)) =>
        /\ ~output.panic
        /\ Len(output.output) = Len(text) + SumLengthChange(delta, 1)

\* apply has returned for a growing fragment followed by a shrinking one, the
\* two not cancelling out.
C8_Witness ==
    /\ pc = "apply_done"
    /\ Defined(text, delta)
    /\ Len(delta) = 2
    /\ length_change(delta[1]) > 0
    /\ length_change(delta[2]) < 0
    /\ SumLengthChange(delta, 1) # 0
    /\ Len(output.output) # Len(text)

-----------------------------------------------------------------------------
(* Properties of Fragment::split, under SpecSplit *)

\* C9: split round trip.  For a fragment with start <= end split at an offset
\* it contains, [shortened receiver, tail] is a valid Delta, and on every text
\* the original fragment can be applied to it gives the bytes the original
\* fragment gives.
C9_SplitRoundTrip ==
    (pc = "split_done" /\ orig.start <= orig.end /\ contains_offset(orig, at)) =>
        /\ Len(split_ret) = 1
        /\ LET halves == <<self, split_ret[1]>> IN
           /\ Delta_new(halves).ok
           /\ \A n \in 0..SplitMaxText :
                 orig.end <= n =>
                     LET a == apply(Text(n), halves)
                         b == apply(Text(n), <<orig>>)
                     IN  ~a.panic /\ ~b.panic /\ a.output = b.output

\* split has cut a fragment inside both its range and its content: each half
\* replaces a non-empty range by non-empty content.
C9_Witness ==
    /\ pc = "split_done"
    /\ Len(split_ret) = 1
    /\ self.start < self.end /\ self.content # <<>>
    /\ split_ret[1].start < split_ret[1].end /\ split_ret[1].content # <<>>
    /\ apply(Text(SplitMaxText), <<self, split_ret[1]>>).output
         = apply(Text(SplitMaxText), <<orig>>).output

\* C10: split(at) against its reference definition, for every fragment and
\* offset.  Outside [start, start + len(content)) it returns None and changes
\* nothing; otherwise the receiver keeps start, gets end = min(old_end, at) and
\* the first at - start content bytes, and the tail has start =
\* min(old_end, at), end = old_end and the other content bytes; from a
\* fragment with start <= end both halves have start <= end.
C10_SplitReference ==
    pc = "split_done" =>
        LET n == at - orig.start
            cut == IF orig.end <= at THEN orig.end ELSE at
        IN  IF at < orig.start \/ at >= orig.start + Len(orig.content)
            THEN split_ret = <<>> /\ self = orig
            ELSE /\ Len(split_ret) = 1
                 /\ self.start = orig.start
                 /\ self.end = cut
                 /\ self.content = [k \in 1..n |-> orig.content[k]]
                 /\ split_ret[1].start = cut
                 /\ split_ret[1].end = orig.end
                 /\ split_ret[1].content
                      = [k \in 1..(Len(orig.content) - n) |-> orig.content[n + k]]
                 /\ orig.start <= orig.end =>
                        /\ self.start <= self.end
                        /\ split_ret[1].start <= split_ret[1].end

\* split has cut a growing fragment at a content offset past its end offset:
\* the split point is clamped, the receiver keeps its whole range and the tail
\* is a pure insertion at the old end.
C10_Witness ==
    /\ pc = "split_done"
    /\ Len(split_ret) = 1
    /\ orig.start < orig.end /\ orig.end < at
    /\ self.end = orig.end
    /\ split_ret[1].start = orig.end /\ split_ret[1].end = orig.end
    /\ self.content # <<>> /\ split_ret[1].content # <<>>

-----------------------------------------------------------------------------
(* Properties of apply_chain and of the groupings, under SpecChain *)

\* C5: apply_chain(text, [d1..dn]) returns what applying d1, ..., dn one at a
\* time returns, each Delta lying within the text the ones before it produce;
\* for the empty chain that is text.
C5_ChainIsStepwise ==
    pc = "chain_done" =>
        /\ ~chain_out.panic
        /\ chain_out.output = stepwise
        /\ deltas = <<>> => chain_out.output = text

\* apply_chain has returned for a chain of three Deltas with a fragment each,
\* every one of which changes the text, and the combined Delta has more
\* fragments than the chain.
C5_Witness ==
    /\ pc = "chain_done"
    /\ Len(deltas) = 3
    /\ \A i \in 1..3 : Len(deltas[i]) = 1 /\ deltas[i][1].content # <<>>
    /\ Len(combine_chain(deltas)) > 3
    /\ chain_out.output = stepwise
    /\ stepwise # text

\* C6: associativity of combine up to behaviour.  For three Deltas that can be
\* applied in sequence to text, combine(combine(d1, d2), d3) and
\* combine(d1, combine(d2, d3)) applied to text return the same bytes.
C6_Associative ==
    pc = "assoc_done" =>
        LET a == apply(text, left)
            b == apply(text, right)
        IN  ~a.panic /\ ~b.panic /\ a.output = b.output

\* The two groupings of three non-empty Deltas are different fragment lists
\* and give the same bytes.
C6_Witness ==
    /\ pc = "assoc_done"
    /\ \A i \in 1..3 : deltas[i] # <<>> /\ deltas[i][1].content # <<>>
    /\ left # right
    /\ apply(text, left).output = apply(text, right).output
    /\ apply(text, left).output = stepwise

-----------------------------------------------------------------------------
(* Properties of the bookkeeping inside combine, under Spec *)

\* C13: the cumulative length change plus the total length change of the
\* fragments still in the iterator over first (put-back tails included) is
\* the total length change of first: at the end of each iteration over a
\* fragment of second for combine's cum_len_change, inside a take_frags call
\* for its own, and at the push for `after`.
C13_CumBookkeeping ==
    LET rest == SumLengthChange(first_frags, 1)
        total == SumLengthChange(first, 1)
    IN  /\ pc = "for" => cum_len_change + rest = total
        /\ pc \in {"take", "skip"} => cum + rest = total
        /\ pc = "push" => after + rest = total

\* An iteration over a fragment of second has ended in which the take phase
\* appended a head, the skip phase dropped a head of a non-zero length change,
\* and the put-back tail is left in the iterator.
C13_Witness ==
    /\ pc = "for"
    /\ idx >= 1
    /\ Len(combined) >= 2
    /\ after # before
    /\ cum_len_change = after
    /\ first_frags # <<>>

\* C14: adjust never underflows inside combine: every call adjust(offset,
\* adjustment) with adjustment > 0 has adjustment <= offset, namely the call
\* on the cutoff in each iteration of take_frags' loop and the two calls on
\* frag.start and frag.end before the push; combine never panics.
C14_AdjustNeverUnderflows ==
    /\ pc # "panic"
    /\ (pc = "take" /\ first_frags # <<>> /\ cum > 0) => cum <= frag.start
    /\ (pc = "skip" /\ first_frags # <<>> /\ cum > 0) => cum <= frag.end
    /\ (pc = "push" /\ before > 0) => before <= frag.start
    /\ (pc = "push" /\ after > 0) => after <= frag.end

\* The push is reached with two positive adjustments, the one for frag.end
\* the larger, and each equal to the offset it is subtracted from.
C14_Witness ==
    /\ pc = "push"
    /\ before > 0
    /\ after > before
    /\ frag.start = before
    /\ frag.end = after

\* An iteration of take_frags' loop is about to run on the next fragment of
\* first, against the translated cutoff of the phase.
InLoop == pc \in {"take", "skip"} /\ first_frags # <<>>

NextFrag == Head(first_frags)

Cutoff == adjust(IF pc = "take" THEN frag.start ELSE frag.end, cum)

\* The step ends the take_frags call with the iterator, the output and the
\* cumulative length change as they were.
PutBack ==
    /\ first_frags' = first_frags
    /\ combined' = combined
    /\ cum' = cum
    /\ pc' = IF pc = "take" THEN "skip" ELSE "push"

\* C15 as stated: in either phase, when the next fragment of first starts at
\* or after the translated cutoff, take_frags stops, the fragment is back in
\* the iterator unmodified, nothing is appended to the output and the
\* cumulative length change is unchanged; a fragment is split only when it
\* starts strictly below the cutoff and its post_end exceeds the cutoff.
C15_PutBackAtCutoff ==
    [][ InLoop =>
          /\ NextFrag.start >= Cutoff => PutBack
          /\ split(NextFrag, Cutoff).ret # <<>> =>
                 NextFrag.start < Cutoff /\ post_end(NextFrag) > Cutoff ]_vars

\* C15, amended: in either phase, when the next fragment of first starts
\* strictly after the translated cutoff, take_frags stops, the fragment is
\* back in the iterator unmodified, nothing is appended to the output and the
\* cumulative length change is unchanged; a fragment is split only when it
\* starts at or below the cutoff and its post_end exceeds the cutoff.
C15_PutBackAfterCutoff ==
    [][ InLoop =>
          /\ NextFrag.start > Cutoff => PutBack
          /\ split(NextFrag, Cutoff).ret # <<>> =>
                 NextFrag.start <= Cutoff /\ post_end(NextFrag) > Cutoff ]_vars

\* The take phase has put the only fragment of first back untouched, as it
\* starts after frag.start, and the skip phase has then split it at frag.end,
\* dropped the head and put the tail back.
C15_Witness ==
    /\ pc = "push"
    /\ Len(first) = 1
    /\ first[1].start > frag.start
    /\ combined = <<>>
    /\ before = 0
    /\ after # 0
    /\ Len(first_frags) = 1
    /\ first_frags[1] # first[1]
    /\ first_frags[1].content # <<>>

\* C16 as stated: combine(first, second) has at most |first| + |second|
\* fragments.
C16_SizeBound ==
    pc = "done" => Len(combined) <= Len(first) + Len(second)

\* C16, amended: combine(first, second) has at most |first| + 2 * |second|
\* fragments (each fragment of second adds itself and at most one head split
\* off in its take phase).
C16_SizeBoundTwice ==
    pc = "done" => Len(combined) <= Len(first) + 2 * Len(second)

\* combine has returned three fragments for one fragment of first with
\* content and one fragment of second: a head, the fragment of second, a tail.
C16_Witness ==
    /\ pc = "done"
    /\ Len(first) = 1
    /\ Len(second) = 1
    /\ Len(combined) = 3
    /\ combined[1].content # <<>>
    /\ combined[3].content # <<>>

-----------------------------------------------------------------------------
(* Properties of the public operations, under SpecPublic *)

\* C11: every Delta the caller can obtain through Delta::new, Delta::default,
\* combine, combine_chain and compat::convert passes Delta::verify (each
\* fragment has start <= end and starts at or after the end of the fragment
\* before it), and apply never stops at its assertion off <= frag.start.
C11_PublicDeltasValid ==
    pc = "public" => verify(d1).ok /\ verify(d2).ok /\ ~assert_failed

-----------------------------------------------------------------------------
(* Properties of the generator, under SpecGen *)

\* C17: arbitrary_frag_content returns a vector whose length is
\* floor(size * s) for the generator size and the sample s drawn.
C17_ContentOfDrawnLength ==
    pc = "gen_done" => Len(vec.buf) = ContentLen(size, sample)

=============================================================================
